---- MODULE Spec2Model ----
(***************************************************************************)
(* aqs-mcp: the rate-limited, validated request pipeline of the EPA AQS    *)
(* MCP server (client part of index.ts) and the tool handlers that use it. *)
(*                                                                         *)
(* Strings are tuples of one-character strings (<<"2","0","2","4">>), so   *)
(* that substring, the \d{8} test and parseInt are computed, not assumed.  *)
(* A JavaScript value that may be absent is a record [t, s]: t is the      *)
(* tag ("undefined", "null" or "string"), s the characters.                *)
(***************************************************************************)
EXTENDS Integers, Sequences, FiniteSets, TLC

VARIABLES
    now,              \* Date.now(), milliseconds
    lastRequestTime,  \* index.ts:124, 0 = no request yet
    env,              \* process.env: [AQS_EMAIL, AQS_API_KEY]
    calls,            \* one record per handler activation slot
    starts,           \* log of the start times of the HTTP GETs, oldest first
    fnIn,             \* direct call of an exported client function: its arguments
    fnOut             \* ... and what it returned or threw

vars == <<now, lastRequestTime, env, calls, starts, fnIn, fnOut>>

----------------------------------------------------------------------------
(* Program constants *)

RATE_LIMIT_MS == 5000

(* Bounds of the model *)

StartTime == 2500      \* value of the clock when the process starts
Step == 2500           \* granularity of the clock
MaxTime == 12500       \* horizon of the concurrent runs
ToolMaxTime == 7500    \* horizon of the runs over all tools and arguments
SeqMaxTime == 52500    \* horizon of the one-call-at-a-time runs
MaxCalls == 2          \* handler activations that can be in flight together

----------------------------------------------------------------------------
(* JavaScript values and strings *)

Undef == [t |-> "undefined", s |-> <<>>]

Null == [t |-> "null", s |-> <<>>]

StrV(s) == [t |-> "string", s |-> s]

\* ToString() as applied by RegExp.prototype.test and by template literals
ToStr(v) == IF v.t = "undefined"
            THEN <<"u", "n", "d", "e", "f", "i", "n", "e", "d">>
            ELSE IF v.t = "null" THEN <<"n", "u", "l", "l">>
            ELSE v.s

\* ToBoolean(): undefined, null and the empty string are falsy
Truthy(v) == v.t = "string" /\ v.s # <<>>

Min(a, b) == IF a < b THEN a ELSE b

\* String.prototype.substring(from, to), 0-based, end-exclusive, clamped
substring(s, from, to) == SubSeq(s, Min(from, Len(s)) + 1, Min(to, Len(s)))

Digits == {"0", "1", "2", "3", "4", "5", "6", "7", "8", "9"}

DigitVal(c) == CASE c = "0" -> 0 [] c = "1" -> 1 [] c = "2" -> 2 [] c = "3" -> 3
                 [] c = "4" -> 4 [] c = "5" -> 5 [] c = "6" -> 6 [] c = "7" -> 7
                 [] c = "8" -> 8 [] c = "9" -> 9

DigitChar(n) == CASE n = 0 -> "0" [] n = 1 -> "1" [] n = 2 -> "2" [] n = 3 -> "3"
                  [] n = 4 -> "4" [] n = 5 -> "5" [] n = 6 -> "6" [] n = 7 -> "7"
                  [] n = 8 -> "8" [] n = 9 -> "9"

\* parseInt(s, 10) of a string of decimal digits
RECURSIVE parseInt(_)
parseInt(s) == IF s = <<>> THEN 0
               ELSE 10 * parseInt(SubSeq(s, 1, Len(s) - 1)) + DigitVal(s[Len(s)])

\* String(n) of a non-negative integer, as interpolated into a message
RECURSIVE NumStr(_)
NumStr(n) == IF n < 10 THEN <<DigitChar(n)>>
             ELSE NumStr(n \div 10) \o <<DigitChar(n % 10)>>

\* the test without the end anchor, /^\d{8}/
MatchesEightDigitsUnanchored(s) == Len(s) >= 8 /\ \A i \in 1..8 : s[i] \in Digits

\* /^\d{8}$/.test(s): eight characters, each an ASCII digit
MatchesEightDigits(s) == Len(s) = 8 /\ \A i \in 1..8 : s[i] \in Digits

----------------------------------------------------------------------------
(* Results of a function that returns or throws.  site is the line of the  *)
(* throw statement, message the text of the Error.                         *)

Returned(v) == [ok |-> TRUE, site |-> "none", message |-> <<>>, value |-> v]

Thrown(site, message) == [ok |-> FALSE, site |-> site, message |-> message,
                          value |-> <<>>]

----------------------------------------------------------------------------
(* validateDateRange comparing the first two characters only *)

validateDateRangeCentury(bdate, edate) ==
    LET beginYear == substring(bdate, 0, 2)
        endYear == substring(edate, 0, 2)
    IN IF beginYear # endYear
       THEN Thrown("CrossYearRange",
                   <<"Begin date (">> \o bdate \o <<") and end date (">> \o edate
                   \o <<") must be in the same calendar year. Got years ">>
                   \o beginYear \o <<" and ">> \o endYear \o <<".">>)
       ELSE Returned(<<>>)

(* index.ts:152-162 *)

validateDateRange(bdate, edate) ==
    LET beginYear == substring(bdate, 0, 4)
        endYear == substring(edate, 0, 4)
    IN IF beginYear # endYear
       THEN Thrown("CrossYearRange",
                   <<"Begin date (">> \o bdate \o <<") and end date (">> \o edate
                   \o <<") must be in the same calendar year. Got years ">>
                   \o beginYear \o <<" and ">> \o endYear \o <<".">>)
       ELSE Returned(<<>>)

(* validateDateFormat with a day limit of 30 *)

validateDateFormatDay30(date, fieldName) ==
    IF ~MatchesEightDigits(ToStr(date))
    THEN Thrown("InvalidDateFormat",
                <<fieldName, " must be in YYYYMMDD format. Got: ">> \o ToStr(date))
    ELSE LET year == parseInt(substring(date.s, 0, 4))
             month == parseInt(substring(date.s, 4, 6))
             day == parseInt(substring(date.s, 6, 8))
         IN IF month < 1 \/ month > 12
            THEN Thrown("InvalidMonth",
                        <<fieldName, " has invalid month: ">> \o NumStr(month))
            ELSE IF day < 1 \/ day > 30
            THEN Thrown("InvalidDay",
                        <<fieldName, " has invalid day: ">> \o NumStr(day))
            ELSE IF year < 1900 \/ year > 2100
            THEN Thrown("InvalidYear",
                        <<fieldName, " has invalid year: ">> \o NumStr(year))
            ELSE Returned(<<>>)

(* index.ts:167-189; date is a JavaScript value, possibly undefined *)

validateDateFormat(date, fieldName) ==
    IF ~MatchesEightDigits(ToStr(date))
    THEN Thrown("InvalidDateFormat",
                <<fieldName, " must be in YYYYMMDD format. Got: ">> \o ToStr(date))
    ELSE LET year == parseInt(substring(date.s, 0, 4))
             month == parseInt(substring(date.s, 4, 6))
             day == parseInt(substring(date.s, 6, 8))
         IN IF month < 1 \/ month > 12
            THEN Thrown("InvalidMonth",
                        <<fieldName, " has invalid month: ">> \o NumStr(month))
            ELSE IF day < 1 \/ day > 31
            THEN Thrown("InvalidDay",
                        <<fieldName, " has invalid day: ">> \o NumStr(day))
            ELSE IF year < 1900 \/ year > 2100
            THEN Thrown("InvalidYear",
                        <<fieldName, " has invalid year: ">> \o NumStr(year))
            ELSE Returned(<<>>)

(* getDefaultCredentials keeping the environment of the first resolution *)

getDefaultCredentialsCached ==
    IF fnOut.n > 0
    THEN [email |-> fnOut.env.AQS_EMAIL, key |-> fnOut.env.AQS_API_KEY]
    ELSE [email |-> env.AQS_EMAIL, key |-> env.AQS_API_KEY]

(* index.ts:249-254; reads process.env at the time of the call *)

getDefaultCredentials == [email |-> env.AQS_EMAIL, key |-> env.AQS_API_KEY]

(* resolveCredentials testing the key before the email *)

resolveCredentialsKeyFirst(providedEmail, providedKey) ==
    LET email == IF Truthy(providedEmail) THEN providedEmail ELSE env.AQS_EMAIL
        key == IF Truthy(providedKey) THEN providedKey ELSE env.AQS_API_KEY
    IN IF ~Truthy(key)
       THEN Thrown("MissingKey",
                   <<"API key is required. Provide it as a parameter or set AQS_API_KEY environment variable.">>)
       ELSE IF ~Truthy(email)
       THEN Thrown("MissingEmail",
                   <<"Email is required. Provide it as a parameter or set AQS_EMAIL environment variable.">>)
       ELSE Returned([email |-> email, key |-> key])

(* resolveCredentials with ?? in place of ||: only undefined falls back *)

resolveCredentialsNullish(providedEmail, providedKey) ==
    LET defaults == getDefaultCredentials
        email == IF providedEmail.t = "string" THEN providedEmail ELSE defaults.email
        key == IF providedKey.t = "string" THEN providedKey ELSE defaults.key
    IN IF email.t # "string"
       THEN Thrown("MissingEmail",
                   <<"Email is required. Provide it as a parameter or set AQS_EMAIL environment variable.">>)
       ELSE IF key.t # "string"
       THEN Thrown("MissingKey",
                   <<"API key is required. Provide it as a parameter or set AQS_API_KEY environment variable.">>)
       ELSE Returned([email |-> email, key |-> key])

(* index.ts:259-277 *)

resolveCredentials(providedEmail, providedKey) ==
    LET defaults == getDefaultCredentials
        email == IF Truthy(providedEmail) THEN providedEmail ELSE defaults.email
        key == IF Truthy(providedKey) THEN providedKey ELSE defaults.key
    IN IF ~Truthy(email)
       THEN Thrown("MissingEmail",
                   <<"Email is required. Provide it as a parameter or set AQS_EMAIL environment variable.">>)
       ELSE IF ~Truthy(key)
       THEN Thrown("MissingKey",
                   <<"API key is required. Provide it as a parameter or set AQS_API_KEY environment variable.">>)
       ELSE Returned([email |-> email, key |-> key])

----------------------------------------------------------------------------
(* index.ts:194-204.  params is the object literal in insertion order, a   *)
(* sequence of [k, v]; the result is the endpoint and the query pairs that *)
(* URLSearchParams.append received.                                        *)

RECURSIVE AppendParams(_, _)
AppendParams(query, params) ==
    IF params = <<>> THEN query
    ELSE LET p == Head(params)
         IN AppendParams(IF p.v.t # "undefined" /\ p.v.t # "null" /\ p.v.s # <<>>
                         THEN Append(query, [k |-> p.k, v |-> p.v.s])
                         ELSE query,
                         Tail(params))

\* buildUrl appending every parameter that is not undefined or null
buildUrlKeepEmpty(endpoint, params) ==
    [endpoint |-> endpoint,
     query |-> [i \in 1..Len(SelectSeq(params, LAMBDA p : p.v.t = "string")) |->
                  [k |-> SelectSeq(params, LAMBDA p : p.v.t = "string")[i].k,
                   v |-> SelectSeq(params, LAMBDA p : p.v.t = "string")[i].v.s]]]

buildUrl(endpoint, params) ==
    [endpoint |-> endpoint, query |-> AppendParams(<<>>, params)]

NoUrl == [endpoint |-> "", query |-> <<>>]

----------------------------------------------------------------------------
(* The registered tools, in the order of allTools (index.ts:26-34).        *)
(* family selects the handler code, endpoint and locs are what the handler *)
(* passes to aqs() after the credentials and the date range.               *)

Tool(name, family, endpoint, locs) ==
    [name |-> name, family |-> family, endpoint |-> endpoint, locs |-> locs]

BySite == <<"state", "county", "site">>
ByCounty == <<"state", "county">>
ByState == <<"state">>
ByBox == <<"minlat", "maxlat", "minlon", "maxlon">>
ByCbsa == <<"cbsa">>

signupTools == <<
    Tool("aqs_signup", "signup", "signup", <<>>),
    Tool("aqs_is_available", "isAvailable", "metaData/isAvailable", <<>>) >>

listTools == <<
    Tool("aqs_list_states", "list", "list/states", <<>>),
    Tool("aqs_list_counties", "list", "list/countiesByState", ByState),
    Tool("aqs_list_sites", "list", "list/sitesByCounty", ByCounty),
    Tool("aqs_list_cbsas", "list", "list/cbsas", <<>>),
    Tool("aqs_list_parameter_classes", "list", "list/classes", <<>>),
    Tool("aqs_list_parameters", "list", "list/parametersByClass", <<"pc">>) >>

monitorTools == <<
    Tool("aqs_monitors_by_site", "monitor", "monitors/bySite", BySite),
    Tool("aqs_monitors_by_county", "monitor", "monitors/byCounty", ByCounty),
    Tool("aqs_monitors_by_state", "monitor", "monitors/byState", ByState),
    Tool("aqs_monitors_by_box", "monitor", "monitors/byBox", ByBox),
    Tool("aqs_monitors_by_cbsa", "monitor", "monitors/byCBSA", ByCbsa) >>

sampleDataTools == <<
    Tool("aqs_sample_data_by_site", "sample", "sampleData/bySite", BySite),
    Tool("aqs_sample_data_by_county", "sample", "sampleData/byCounty", ByCounty),
    Tool("aqs_sample_data_by_state", "sample", "sampleData/byState", ByState),
    Tool("aqs_sample_data_by_box", "sample", "sampleData/byBox", ByBox),
    Tool("aqs_sample_data_by_cbsa", "sample", "sampleData/byCBSA", ByCbsa) >>

dailyTools == <<
    Tool("aqs_daily_summary_by_site", "daily", "dailyData/bySite", BySite),
    Tool("aqs_daily_summary_by_county", "daily", "dailyData/byCounty", ByCounty),
    Tool("aqs_daily_summary_by_state", "daily", "dailyData/byState", ByState),
    Tool("aqs_daily_summary_by_box", "daily", "dailyData/byBox", ByBox),
    Tool("aqs_daily_summary_by_cbsa", "daily", "dailyData/byCBSA", ByCbsa) >>

quarterlyTools == <<
    Tool("aqs_quarterly_summary_by_site", "quarterly", "quarterlyData/bySite", BySite),
    Tool("aqs_quarterly_summary_by_county", "quarterly", "quarterlyData/byCounty", ByCounty),
    Tool("aqs_quarterly_summary_by_state", "quarterly", "quarterlyData/byState", ByState) >>

annualTools == <<
    Tool("aqs_annual_summary_by_site", "annual", "annualData/bySite", BySite),
    Tool("aqs_annual_summary_by_county", "annual", "annualData/byCounty", ByCounty),
    Tool("aqs_annual_summary_by_state", "annual", "annualData/byState", ByState),
    Tool("aqs_annual_summary_by_box", "annual", "annualData/byBox", ByBox),
    Tool("aqs_annual_summary_by_cbsa", "annual", "annualData/byCBSA", ByCbsa) >>

\* the list with the tools of lists.ts spread twice
allToolsDuplicated == signupTools \o listTools \o listTools \o monitorTools
                      \o sampleDataTools \o dailyTools \o quarterlyTools \o annualTools

allTools == signupTools \o listTools \o monitorTools \o sampleDataTools
            \o dailyTools \o quarterlyTools \o annualTools

ToolNames == {allTools[i].name : i \in 1..Len(allTools)}

\* new Map(allTools.map(tool => [tool.name, tool])): a later entry of the
\* same name replaces an earlier one
toolMap == [n \in ToolNames |->
              allTools[CHOOSE i \in 1..Len(allTools) :
                          /\ allTools[i].name = n
                          /\ \A j \in 1..Len(allTools) :
                                allTools[j].name = n => j <= i]]

NoTool == Tool("", "none", "", <<>>)

\* the date families without the quarterly one
DateFamiliesNoQuarterly == {"monitor", "sample", "daily", "annual"}

\* the families whose handler validates bdate and edate
DateFamilies == {"monitor", "sample", "daily", "quarterly", "annual"}

\* the families whose handler has its own try/catch around the request
CatchingFamilies == {"signup", "isAvailable", "monitor", "annual"}

----------------------------------------------------------------------------
(* Tool responses.  A handler returns {content: [{type: 'text', text}]};   *)
(* only the dispatch layer adds isError.  text is the sequence of the      *)
(* fragments the code concatenates.                                        *)

Result(isError, text) == [isError |-> isError, text |-> text]

NoResult == Result(FALSE, <<>>)

\* JSON.stringify({ error: message }, null, 2) (escaping of the message not modelled)
JsonError(message) == <<"{\n  \"error\": \"">> \o message \o <<"\"\n}">>

----------------------------------------------------------------------------
(* The part of a handler that runs before it awaits aqs(): it returns a    *)
(* text, throws, or reaches aqs(endpoint, params).                         *)

ReturnsText(text) == [kind |-> "return", text |-> text, err |-> Returned(<<>>),
                      params |-> <<>>]

Throws(err) == [kind |-> "throw", text |-> <<>>, err |-> err, params |-> <<>>]

CallsAqs(params) == [kind |-> "aqs", text |-> <<>>, err |-> Returned(<<>>),
                     params |-> params]

Param(k, v) == [k |-> k, v |-> v]

Includes(s, ch) == \E i \in 1..Len(s) : s[i] = ch

LocParams(tool, args) == [i \in 1..Len(tool.locs) |->
                            Param(tool.locs[i], args[tool.locs[i]])]

\* part_002:62-89 (signup.ts), the checks of the email argument
signupStart(tool, args) ==
    LET email == args.email
    IN IF ~Truthy(email)
       THEN ReturnsText(<<"Error: Email address is required for API key registration.">>)
       ELSE IF ~Includes(email.s, "@") \/ ~Includes(email.s, ".")
       THEN ReturnsText(<<"Error: Please provide a valid email address.">>)
       ELSE CallsAqs(<<Param("email", email)>>)

\* a list handler forwarding args.email and args.key as given
listStartArgsOnly(tool, args) ==
    LET cred == resolveCredentials(args.email, args.key)
    IN IF ~cred.ok THEN Throws(cred)
       ELSE CallsAqs(<<Param("email", args.email),
                       Param("key", args.key)>> \o LocParams(tool, args))

\* lists.ts:67-71 and the like; part_002:160-171 (isAvailable)
listStart(tool, args) ==
    LET cred == resolveCredentials(args.email, args.key)
    IN IF ~cred.ok THEN Throws(cred)
       ELSE CallsAqs(<<Param("email", cred.value.email),
                       Param("key", cred.value.key)>> \o LocParams(tool, args))

\* a date handler validating the dates before resolving the credentials
dateRangeStartDatesFirst(tool, args) ==
    LET cred == resolveCredentials(args.email, args.key)
        b == validateDateFormat(args.bdate, "bdate")
        e == validateDateFormat(args.edate, "edate")
    IN IF ~b.ok THEN Throws(b)
       ELSE IF ~e.ok THEN Throws(e)
       ELSE LET r == validateDateRange(args.bdate.s, args.edate.s)
            IN IF ~r.ok THEN Throws(r)
               ELSE IF ~cred.ok THEN Throws(cred)
               ELSE CallsAqs(<<Param("email", cred.value.email),
                               Param("key", cred.value.key),
                               Param("param", args.param),
                               Param("bdate", args.bdate),
                               Param("edate", args.edate)>>
                             \o LocParams(tool, args))

\* a date handler without the same-year check
dateRangeStartNoRange(tool, args) ==
    LET cred == resolveCredentials(args.email, args.key)
        b == validateDateFormat(args.bdate, "bdate")
        e == validateDateFormat(args.edate, "edate")
    IN IF ~cred.ok THEN Throws(cred)
       ELSE IF ~b.ok THEN Throws(b)
       ELSE IF ~e.ok THEN Throws(e)
       ELSE CallsAqs(<<Param("email", cred.value.email),
                       Param("key", cred.value.key),
                       Param("param", args.param),
                       Param("bdate", args.bdate),
                       Param("edate", args.edate)>>
                     \o LocParams(tool, args))

\* annual.ts:104-119, monitors.ts:129-150, part_002:423-438 (samples),
\* lists.d.ts:155-168 (daily), quarterly.js:78-91
dateRangeStart(tool, args) ==
    LET cred == resolveCredentials(args.email, args.key)
        b == validateDateFormat(args.bdate, "bdate")
        e == validateDateFormat(args.edate, "edate")
    IN IF ~cred.ok THEN Throws(cred)
       ELSE IF ~b.ok THEN Throws(b)
       ELSE IF ~e.ok THEN Throws(e)
       ELSE LET r == validateDateRange(args.bdate.s, args.edate.s)
            IN IF ~r.ok THEN Throws(r)
               ELSE CallsAqs(<<Param("email", cred.value.email),
                               Param("key", cred.value.key),
                               Param("param", args.param),
                               Param("bdate", args.bdate),
                               Param("edate", args.edate)>>
                             \o LocParams(tool, args))

HandlerStart(tool, args) ==
    IF tool.family = "signup" THEN signupStart(tool, args)
    ELSE IF tool.family \in DateFamilies THEN dateRangeStart(tool, args)
    ELSE listStart(tool, args)

\* The catch block of the handler, for the families that have one:
\* part_002:119-130 (signup), part_002:200-231 (isAvailable; the two
\* includes() tests select the errors of resolveCredentials),
\* monitors.ts:158-166, annual.ts:130-136
handlerCatch(tool, err) ==
    CASE tool.family = "signup" ->
           Result(FALSE, <<"Error during signup: ">> \o err.message)
      [] tool.family = "isAvailable" ->
           IF err.site \in {"MissingEmail", "MissingKey"}
           THEN Result(FALSE, <<"Credentials required: ">> \o err.message
                   \o <<"\n\nProvide email and key parameters, or set AQS_EMAIL and AQS_API_KEY environment variables.">>)
           ELSE Result(FALSE, <<"EPA AQS API Status: UNAVAILABLE or ERROR\n\nError: ">>
                   \o err.message)
      [] tool.family = "monitor" -> Result(FALSE, JsonError(err.message))
      [] tool.family = "annual" -> Result(FALSE, <<"Error: ">> \o err.message)

\* index.ts:85-96, the catch block of the dispatch layer
dispatchCatch(err) == Result(TRUE, <<"Error: ">> \o err.message)

\* What becomes of an error thrown inside the handler of tool
OnError(tool, err) ==
    IF tool.family \in CatchingFamilies THEN handlerCatch(tool, err)
    ELSE dispatchCatch(err)

\* the response for an unknown name without the isError mark
unknownToolNoFlag(name) == Result(FALSE, <<"Unknown tool: ", name>>)

\* index.ts:71-81
unknownTool(name) == Result(TRUE, <<"Unknown tool: ", name>>)

\* The text a handler builds from a successful envelope (formatResponse and
\* the like; the layout of the JSON is not modelled)
FormatSuccess(tool, envelope) ==
    Result(FALSE, <<tool.endpoint, ": ">> \o envelope.Data)

----------------------------------------------------------------------------
(* HTTP.  A response of the upstream API as fetch() delivers it: fault is  *)
(* a rejected fetch, parses tells whether response.json() succeeds, Header *)
(* is the sequence of the header objects ([status]) when present.          *)

HttpResponse(status, statusText, hasHeader, Header, Data) ==
    [fault |-> FALSE, status |-> status, statusText |-> statusText,
     parses |-> TRUE, hasHeader |-> hasHeader, Header |-> Header, Data |-> Data]

NetworkFault == [HttpResponse(0, "", FALSE, <<>>, <<>>) EXCEPT !.fault = TRUE]

BadJson == [HttpResponse(200, "OK", FALSE, <<>>, <<>>) EXCEPT !.parses = FALSE]

NoResponse == HttpResponse(0, "", FALSE, <<>>, <<>>)

\* part_003:8-13 (AqsHeader); rows is not modelled
Hdr(status) == [status |-> status, request_time |-> "2024-06-01T12:00:00-04:00",
                url |-> "https://aqs.epa.gov/data/api/list/states"]

\* JSON.stringify(header)
JsonHeader(h) == <<"{\"status\":\"", h.status, "\",\"request_time\":\"",
                   h.request_time, "\",\"url\":\"", h.url, "\"}">>

\* the error wrapped where it is thrown and again in the catch block
wrapErrorTwice(site, message) ==
    Thrown(site, <<"AQS API request failed: ", "AQS API request failed: ">> \o message)

\* index.ts:238-243: every Error is rethrown with the prefix
wrapError(site, message) == Thrown(site, <<"AQS API request failed: ">> \o message)

\* aqs() trusting response.ok alone, without the test of the header
aqsSettleHttpOnly(resp) ==
    IF resp.fault THEN wrapError("NetworkFault", <<"fetch failed">>)
    ELSE IF ~(resp.status \in 200..299)
    THEN wrapError("HttpError",
                   <<"HTTP ">> \o NumStr(resp.status) \o <<": ", resp.statusText>>)
    ELSE IF ~resp.parses
    THEN wrapError("BadJson", <<"Unexpected token < in JSON at position 0">>)
    ELSE Returned([hasHeader |-> resp.hasHeader, Header |-> resp.Header,
                   Data |-> resp.Data])

\* aqs() calling response.json() before the test of response.ok
aqsSettleParseFirst(resp) ==
    IF resp.fault THEN wrapError("NetworkFault", <<"fetch failed">>)
    ELSE IF ~resp.parses
    THEN wrapError("BadJson", <<"Unexpected token < in JSON at position 0">>)
    ELSE IF ~(resp.status \in 200..299)
    THEN wrapError("HttpError",
                   <<"HTTP ">> \o NumStr(resp.status) \o <<": ", resp.statusText>>)
    ELSE IF resp.hasHeader /\ Len(resp.Header) > 0 /\ resp.Header[1].status = "Failed"
    THEN wrapError("ApiFailed", <<"AQS API Error: ">> \o JsonHeader(resp.Header[1]))
    ELSE Returned([hasHeader |-> resp.hasHeader, Header |-> resp.Header,
                   Data |-> resp.Data])

\* aqs() failing on a 'Failed' status in any element of Header
aqsSettleAnyHeader(resp) ==
    IF resp.fault THEN wrapError("NetworkFault", <<"fetch failed">>)
    ELSE IF ~(resp.status \in 200..299)
    THEN wrapError("HttpError",
                   <<"HTTP ">> \o NumStr(resp.status) \o <<": ", resp.statusText>>)
    ELSE IF ~resp.parses
    THEN wrapError("BadJson", <<"Unexpected token < in JSON at position 0">>)
    ELSE IF resp.hasHeader /\ \E i \in 1..Len(resp.Header) : resp.Header[i].status = "Failed"
    THEN wrapError("ApiFailed", <<"AQS API Error: ">> \o JsonHeader(resp.Header[1]))
    ELSE Returned([hasHeader |-> resp.hasHeader, Header |-> resp.Header,
                   Data |-> resp.Data])

\* aqs() returning the data records without the header
aqsSettleDataOnly(resp) ==
    IF resp.fault THEN wrapError("NetworkFault", <<"fetch failed">>)
    ELSE IF ~(resp.status \in 200..299)
    THEN wrapError("HttpError",
                   <<"HTTP ">> \o NumStr(resp.status) \o <<": ", resp.statusText>>)
    ELSE IF ~resp.parses
    THEN wrapError("BadJson", <<"Unexpected token < in JSON at position 0">>)
    ELSE IF resp.hasHeader /\ Len(resp.Header) > 0 /\ resp.Header[1].status = "Failed"
    THEN wrapError("ApiFailed", <<"AQS API Error: ">> \o JsonHeader(resp.Header[1]))
    ELSE Returned([hasHeader |-> FALSE, Header |-> <<>>, Data |-> resp.Data])

\* index.ts:221-237, from the settling of fetch(url) on
aqsSettle(resp) ==
    IF resp.fault THEN wrapError("NetworkFault", <<"fetch failed">>)
    ELSE IF ~(resp.status \in 200..299)
    THEN wrapError("HttpError",
                   <<"HTTP ">> \o NumStr(resp.status) \o <<": ", resp.statusText>>)
    ELSE IF ~resp.parses
    THEN wrapError("BadJson", <<"Unexpected token < in JSON at position 0">>)
    ELSE IF resp.hasHeader /\ Len(resp.Header) > 0 /\ resp.Header[1].status = "Failed"
    THEN wrapError("ApiFailed", <<"AQS API Error: ">> \o JsonHeader(resp.Header[1]))
    ELSE Returned([hasHeader |-> resp.hasHeader, Header |-> resp.Header,
                   Data |-> resp.Data])

NotSettled == Thrown("pending", <<>>)

----------------------------------------------------------------------------
(* index.ts:136-147, enforceRateLimit *)

timeSinceLastRequest == now - lastRequestTime

\* the test without the exemption of the first request
MustWaitNoExemption == timeSinceLastRequest < RATE_LIMIT_MS

MustWait == timeSinceLastRequest < RATE_LIMIT_MS /\ lastRequestTime > 0

\* the elapsed time taken for the remaining time
waitTimeElapsed == timeSinceLastRequest

waitTime == RATE_LIMIT_MS - timeSinceLastRequest

----------------------------------------------------------------------------
(* Handler activations.  pc: "idle", "sleeping" (in sleep(waitTime)),      *)
(* "fetching" (GET issued, not settled), "done" (response ready for the    *)
(* host).  sent counts the GETs the activation issued, startedAt is the    *)
(* value of Date.now() stored in the marker when it passed the gate.       *)

Calls == 1..MaxCalls

ArgNames == {"email", "key", "param", "bdate", "edate", "state", "county",
             "site", "minlat", "maxlat", "minlon", "maxlon", "cbsa", "pc"}

NoArgs == [a \in ArgNames |-> Undef]

IdleCall == [pc |-> "idle", name |-> "", args |-> NoArgs, params |-> <<>>,
             wakeAt |-> 0, startedAt |-> 0, url |-> NoUrl, sent |-> 0,
             response |-> NoResponse,
             aqsOut |-> NotSettled, result |-> NoResult]

ToolOf(name) == IF name \in DOMAIN toolMap THEN toolMap[name] ELSE NoTool

\* aqs() answering a repeated request from a cache: no GET, marker untouched
IssueRequestMemoized(c, call) ==
    IF starts # <<>>
    THEN /\ calls' = [calls EXCEPT ![c] =
                        [call EXCEPT !.pc = "fetching",
                                     !.url = buildUrl(ToolOf(call.name).endpoint, call.params)]]
         /\ UNCHANGED <<lastRequestTime, starts>>
    ELSE /\ lastRequestTime' = now
         /\ starts' = Append(starts, now)
         /\ calls' = [calls EXCEPT ![c] =
                        [call EXCEPT !.pc = "fetching", !.startedAt = now,
                                     !.url = buildUrl(ToolOf(call.name).endpoint, call.params),
                                     !.sent = call.sent + 1]]

\* the GET issued without the marker being set (it is set nowhere else)
IssueRequestNoMark(c, call) ==
    /\ UNCHANGED lastRequestTime
    /\ starts' = Append(starts, now)
    /\ calls' = [calls EXCEPT ![c] =
                   [call EXCEPT !.pc = "fetching", !.startedAt = now,
                                !.url = buildUrl(ToolOf(call.name).endpoint, call.params),
                                !.sent = call.sent + 1]]

\* index.ts:146 and 215-221: the marker is set and the GET is issued
IssueRequest(c, call) ==
    /\ lastRequestTime' = now
    /\ starts' = Append(starts, now)
    /\ calls' = [calls EXCEPT ![c] =
                   [call EXCEPT !.pc = "fetching", !.startedAt = now,
                                !.url = buildUrl(ToolOf(call.name).endpoint, call.params),
                                !.sent = call.sent + 1]]

\* index.ts:67-97 up to the first suspension of the handler: the lookup,
\* the synchronous part of the handler and of aqs()/enforceRateLimit()
CallTool(c, name, args) ==
    /\ calls[c].pc = "idle"
    /\ LET call == [IdleCall EXCEPT !.name = name, !.args = args]
           tool == ToolOf(name)
           st == HandlerStart(tool, args)
       IN IF name \notin DOMAIN toolMap
          THEN /\ calls' = [calls EXCEPT ![c] =
                              [call EXCEPT !.pc = "done", !.result = unknownTool(name)]]
               /\ UNCHANGED <<lastRequestTime, starts>>
          ELSE IF st.kind = "return"
          THEN /\ calls' = [calls EXCEPT ![c] =
                              [call EXCEPT !.pc = "done", !.result = Result(FALSE, st.text)]]
               /\ UNCHANGED <<lastRequestTime, starts>>
          ELSE IF st.kind = "throw"
          THEN /\ calls' = [calls EXCEPT ![c] =
                              [call EXCEPT !.pc = "done", !.result = OnError(tool, st.err)]]
               /\ UNCHANGED <<lastRequestTime, starts>>
          ELSE IF MustWait
          THEN /\ calls' = [calls EXCEPT ![c] =
                              [call EXCEPT !.pc = "sleeping", !.params = st.params,
                                           !.wakeAt = now + waitTime]]
               /\ UNCHANGED <<lastRequestTime, starts>>
          ELSE IssueRequest(c, [call EXCEPT !.params = st.params])
    /\ UNCHANGED <<now, env, fnIn, fnOut>>

\* a poll loop: the woken call tests the marker again and may sleep again
TimerFiresRechecks(c) ==
    /\ calls[c].pc = "sleeping"
    /\ now >= calls[c].wakeAt
    /\ IF MustWait
       THEN /\ calls' = [calls EXCEPT ![c] = [@ EXCEPT !.wakeAt = now + waitTime]]
            /\ UNCHANGED <<lastRequestTime, starts>>
       ELSE IssueRequest(c, calls[c])
    /\ UNCHANGED <<now, env, fnIn, fnOut>>

\* the woken call storing the time its timer was set for, not Date.now()
TimerFiresScheduled(c) ==
    /\ calls[c].pc = "sleeping"
    /\ now >= calls[c].wakeAt
    /\ lastRequestTime' = calls[c].wakeAt
    /\ starts' = Append(starts, now)
    /\ calls' = [calls EXCEPT ![c] =
                   [@ EXCEPT !.pc = "fetching", !.startedAt = now,
                             !.url = buildUrl(ToolOf(calls[c].name).endpoint, calls[c].params),
                             !.sent = calls[c].sent + 1]]
    /\ UNCHANGED <<now, env, fnIn, fnOut>>

\* index.ts:129-131 and 143-146: the timer of sleep() fires, at or after
\* the time it was set for
TimerFires(c) ==
    /\ calls[c].pc = "sleeping"
    /\ now >= calls[c].wakeAt
    /\ IssueRequest(c, calls[c])
    /\ UNCHANGED <<now, env, fnIn, fnOut>>

\* a failed attempt giving its throttle slot back
FetchSettlesFailureFrees(c, resp) ==
    /\ calls[c].pc = "fetching"
    /\ LET tool == ToolOf(calls[c].name)
           out == aqsSettle(resp)
       IN /\ calls' = [calls EXCEPT ![c] =
                         [@ EXCEPT !.pc = "done", !.response = resp, !.aqsOut = out,
                                   !.result = IF out.ok THEN FormatSuccess(tool, out.value)
                                              ELSE OnError(tool, out)]]
          /\ lastRequestTime' = IF out.ok THEN lastRequestTime ELSE 0
    /\ UNCHANGED <<now, env, starts, fnIn, fnOut>>

\* the marker set again when the response arrives
FetchSettlesMarks(c, resp) ==
    /\ calls[c].pc = "fetching"
    /\ LET tool == ToolOf(calls[c].name)
           out == aqsSettle(resp)
       IN calls' = [calls EXCEPT ![c] =
                      [@ EXCEPT !.pc = "done", !.response = resp, !.aqsOut = out,
                                !.result = IF out.ok THEN FormatSuccess(tool, out.value)
                                           ELSE OnError(tool, out)]]
    /\ lastRequestTime' = now
    /\ UNCHANGED <<now, env, starts, fnIn, fnOut>>

\* index.ts:221-243 and the rest of the handler: fetch settles with resp
FetchSettles(c, resp) ==
    /\ calls[c].pc = "fetching"
    /\ LET tool == ToolOf(calls[c].name)
           out == aqsSettle(resp)
       IN calls' = [calls EXCEPT ![c] =
                      [@ EXCEPT !.pc = "done", !.response = resp, !.aqsOut = out,
                                !.result = IF out.ok THEN FormatSuccess(tool, out.value)
                                           ELSE OnError(tool, out)]]
    /\ UNCHANGED <<now, lastRequestTime, env, starts, fnIn, fnOut>>

\* the host receives the response; the activation is over
Deliver(c) ==
    /\ calls[c].pc = "done"
    /\ calls' = [calls EXCEPT ![c] = IdleCall]
    /\ UNCHANGED <<now, lastRequestTime, env, starts, fnIn, fnOut>>

\* time passes
Tick(limit) ==
    /\ now + Step <= limit
    /\ now' = now + Step
    /\ UNCHANGED <<lastRequestTime, env, calls, starts, fnIn, fnOut>>

NoCallInFlight == \A c \in Calls : calls[c].pc = "idle"

\* no handler is running (a finished one may not have been collected yet)
NoCallRunning == \A c \in Calls : calls[c].pc \in {"idle", "done"}

NoCallSleeping == \A c \in Calls : calls[c].pc # "sleeping"

----------------------------------------------------------------------------
(* Inputs *)

EmailA == <<"a", "@", "b", ".", "c">>
EmailBad == <<"a", "b">>
EmailE == <<"e", "@", "n", ".", "v">>
EmailF == <<"f", "@", "n", ".", "v">>
KeyK == <<"k">>
KeyE == <<"e", "k">>

EnvUnset == [AQS_EMAIL |-> Undef, AQS_API_KEY |-> Undef]
EnvSet == [AQS_EMAIL |-> StrV(EmailE), AQS_API_KEY |-> StrV(KeyE)]

Y(a, b, c, d) == <<a, b, c, d>>
P(a, b) == <<a, b>>

D20230601 == StrV(Y("2", "0", "2", "3") \o P("0", "6") \o P("0", "1"))
D20231231 == StrV(Y("2", "0", "2", "3") \o P("1", "2") \o P("3", "1"))
D20240101 == StrV(Y("2", "0", "2", "4") \o P("0", "1") \o P("0", "1"))
D20240601 == StrV(Y("2", "0", "2", "4") \o P("0", "6") \o P("0", "1"))
D20241231 == StrV(Y("2", "0", "2", "4") \o P("1", "2") \o P("3", "1"))
D20241301 == StrV(Y("2", "0", "2", "4") \o P("1", "3") \o P("0", "1"))
D2024060 == StrV(Y("2", "0", "2", "4") \o P("0", "6") \o <<"0">>)

\* the arguments of a call: credentials and dates vary, the rest is fixed
MkArgs(email, key, bdate, edate) ==
    [NoArgs EXCEPT !["email"] = email, !["key"] = key,
                   !["bdate"] = bdate, !["edate"] = edate,
                   !["param"] = StrV(<<"4", "4", "2", "0", "1">>),
                   !["state"] = StrV(<<"0", "6">>),
                   !["county"] = StrV(<<"0", "3", "7">>),
                   !["site"] = StrV(<<"0", "0", "0", "1">>),
                   !["minlat"] = StrV(<<"3", "3">>), !["maxlat"] = StrV(<<"3", "4">>),
                   !["minlon"] = StrV(<<"-", "1", "1", "8">>),
                   !["maxlon"] = StrV(<<"-", "1", "1", "7">>),
                   !["cbsa"] = StrV(<<"3", "1", "0", "8", "0">>),
                   !["pc"] = StrV(<<"A", "L", "L">>)]

UnknownName == "aqs_delete_everything"

\* arguments tried with each tool: the dates vary only where they are read
ArgsFor(name) ==
    IF name \notin ToolNames THEN {MkArgs(Undef, Undef, Undef, Undef)}
    ELSE IF toolMap[name].family = "signup"
    THEN {MkArgs(e, Undef, Undef, Undef) : e \in {Undef, StrV(EmailA), StrV(EmailBad)}}
    ELSE IF toolMap[name].family \in DateFamilies
    THEN {MkArgs(ek[1], ek[2], b, e) :
            ek \in {<<Undef, Undef>>, <<StrV(EmailA), StrV(KeyK)>>},
            b \in {Undef, D20230601, D20240601, D20241231, D20241301},
            e \in {D20240601, D20240101, D2024060}}
    ELSE {MkArgs(e, k, Undef, Undef) : e \in {Undef, StrV(EmailA)},
                                        k \in {Undef, StrV(KeyK)}}

Success200 == HttpResponse(200, "OK", TRUE, <<Hdr("Success")>>, <<"row1", "row2">>)
Failed200 == HttpResponse(200, "OK", TRUE, <<Hdr("Failed")>>, <<>>)
NoHeader200 == HttpResponse(200, "OK", FALSE, <<>>, <<"row1">>)
EmptyHeader200 == HttpResponse(200, "OK", TRUE, <<>>, <<>>)
LaterFailed200 == HttpResponse(200, "OK", TRUE, <<Hdr("Success"), Hdr("Failed")>>, <<"row1">>)
Error500 == HttpResponse(500, "Internal Server Error", TRUE, <<Hdr("Failed")>>, <<>>)

NotFound404 == [HttpResponse(404, "Not Found", FALSE, <<>>, <<>>) EXCEPT !.parses = FALSE]
Partial299 == HttpResponse(299, "Partial", TRUE, <<Hdr("Success")>>, <<"row1">>)
Multiple300 == HttpResponse(300, "Multiple Choices", TRUE, <<Hdr("Success")>>, <<"row1">>)

Responses == {Success200, Failed200, NoHeader200, EmptyHeader200, LaterFailed200,
              Error500, NetworkFault, BadJson, NotFound404, Partial299, Multiple300}

TimingResponses == {Success200, Failed200, Error500, NetworkFault}

\* the call used where only the timing matters
PlainName == "aqs_list_states"
PlainArgs == MkArgs(StrV(EmailA), StrV(KeyK), Undef, Undef)

NotCalled == [n |-> 0, env |-> EnvUnset, prevEnv |-> EnvUnset, res |-> NotSettled]
NoInput == [fn |-> "none", a |-> Undef, b |-> Undef, c |-> Undef]

----------------------------------------------------------------------------
(* Spec: the host runs up to MaxCalls tool calls concurrently; their       *)
(* handlers interleave at the awaits of sleep() and fetch().               *)

InitServer(envs) ==
    /\ now = StartTime
    /\ lastRequestTime = 0
    /\ env \in envs
    /\ calls = [c \in Calls |-> IdleCall]
    /\ starts = <<>>
    /\ fnIn = NoInput
    /\ fnOut = NotCalled

Init == InitServer({EnvUnset})

Next ==
    \/ \E c \in Calls : CallTool(c, PlainName, PlainArgs)
    \/ \E c \in Calls : TimerFires(c)
    \/ \E c \in Calls : \E resp \in {Success200, Error500} : FetchSettles(c, resp)
    \/ \E c \in Calls : Deliver(c)
    \/ Tick(MaxTime)

Spec == Init /\ [][Next]_vars

(* SpecSeq: the host issues one call at a time, each returns before the    *)
(* next begins.                                                            *)

NextSeq ==
    \/ NoCallInFlight /\ CallTool(1, PlainName, PlainArgs)
    \/ TimerFires(1)
    \/ \E resp \in TimingResponses : FetchSettles(1, resp)
    \/ Deliver(1)
    \/ Tick(SeqMaxTime)

SpecSeq == Init /\ [][NextSeq]_vars

(* SpecSerial: the host starts a call only when no handler is running, but *)
(* may collect the responses later, so that a finished activation and the  *)
(* next one are seen together.                                             *)

NextSerial ==
    \/ \E c \in Calls : NoCallRunning /\ CallTool(c, PlainName, PlainArgs)
    \/ \E c \in Calls : TimerFires(c)
    \/ \E c \in Calls : \E resp \in TimingResponses : FetchSettles(c, resp)
    \/ \E c \in Calls : Deliver(c)
    \/ Tick(MaxTime)

SpecSerial == Init /\ [][NextSerial]_vars

(* SpecOneSleeper: the concurrent host, in the executions where at most    *)
(* one call is inside sleep() at any time: a call that would have to wait  *)
(* arrives only when no other call is waiting.                             *)

NextOneSleeper ==
    \/ \E c \in Calls : (NoCallSleeping \/ ~MustWait) /\ CallTool(c, PlainName, PlainArgs)
    \/ \E c \in Calls : TimerFires(c)
    \/ \E c \in Calls : \E resp \in {Success200, Error500} : FetchSettles(c, resp)
    \/ \E c \in Calls : Deliver(c)
    \/ Tick(MaxTime)

SpecOneSleeper == Init /\ [][NextOneSleeper]_vars

(* SpecLive: the concurrent host with the scheduling the runtime gives:    *)
(* time passes, a due timer fires, an issued fetch settles.  Calls arrive  *)
(* while their wait can end within the horizon of the model.               *)

NextLive ==
    \/ \E c \in Calls : now + RATE_LIMIT_MS <= MaxTime /\ CallTool(c, PlainName, PlainArgs)
    \/ \E c \in Calls : TimerFires(c)
    \/ \E c \in Calls : \E resp \in {Success200, Error500} : FetchSettles(c, resp)
    \/ \E c \in Calls : Deliver(c)
    \/ Tick(MaxTime)

Fairness ==
    /\ WF_vars(Tick(MaxTime))
    /\ \A c \in Calls : WF_vars(TimerFires(c))
    /\ \A c \in Calls : WF_vars(\E resp \in {Success200, Error500} : FetchSettles(c, resp))

SpecLive == Init /\ [][NextLive]_vars /\ Fairness

(* SpecTools: one call at a time, of any tool (or of an unregistered       *)
(* name), with any of the arguments, and any response of the API.          *)

InitTools == InitServer({EnvUnset, EnvSet})

NextTools ==
    \/ \E name \in ToolNames \cup {UnknownName} : \E args \in ArgsFor(name) :
          NoCallInFlight /\ CallTool(1, name, args)
    \/ TimerFires(1)
    \/ \E resp \in Responses : FetchSettles(1, resp)
    \/ Deliver(1)
    \/ Tick(ToolMaxTime)

SpecTools == InitTools /\ [][NextTools]_vars

----------------------------------------------------------------------------
(* SpecFn: the exported functions of the client called directly, on an     *)
(* input drawn by Init.  For resolveCredentials the caller may change the  *)
(* environment between two calls.                                          *)

MaxFnCalls == 2

FnYears == {Y("0", "0", "0", "0"), Y("1", "8", "9", "9"), Y("1", "9", "0", "0"),
            Y("2", "0", "2", "3"), Y("2", "0", "2", "4"), Y("2", "1", "0", "0"),
            Y("2", "1", "0", "1"), Y("9", "9", "9", "9")}
FnMonths == {P("0", "0"), P("0", "1"), P("0", "2"), P("0", "4"), P("1", "2"),
             P("1", "3"), P("9", "9")}
FnDays == {P("0", "0"), P("0", "1"), P("2", "9"), P("3", "0"), P("3", "1"),
           P("3", "2"), P("9", "9")}

\* every combination of the years, months and days above
EightDigitTokens == {y \o m \o d : y \in FnYears, m \in FnMonths, d \in FnDays}

\* tokens that are not eight ASCII digits
MalformedTokens ==
    {<<>>,
     <<"2", "0", "2", "4", "0", "1", "0">>,
     <<"2", "0", "2", "4", "0", "1", "0", "1", "0">>,
     <<"2", "0", "2", "4", "-", "0", "1", "-", "0", "1">>,
     <<"2", "0", "2", "4", "0", "1", "0", "a">>,
     <<"2", "0", "2", "4", "1", "3", "4", "x">>,
     <<" ", "2", "0", "2", "4", "0", "1", "0">>,
     <<"2", "0", "2", "4", "0", "1", "0", "1", "\n">>,
     <<"-", "2", "0", "2", "4", "0", "1">>,
     <<"J", "a", "n", " ", "1", " ", "2", "4">>,
     <<"u", "n", "d", "e", "f", "i", "n", "e", "d">>}

FnDateInputs == {Undef} \cup {StrV(t) : t \in EightDigitTokens \cup MalformedTokens}

FnRangeTokens ==
    {D20230601.s, D20231231.s, D20240101.s, D20240601.s, D20241231.s,
     Y("2", "0", "2", "4") \o P("0", "2") \o P("3", "1"),
     Y("2", "0", "2", "4"), <<"2", "0", "2">>, <<>>,
     <<"2", "0", "2", "4", "x">>, <<"2", "0", "2", "5", "x">>,
     Y("2", "1", "0", "0") \o P("0", "1") \o P("0", "1")}

FnCredInputs == {Undef, StrV(<<>>), StrV(EmailA)}
FnKeyInputs == {Undef, StrV(<<>>), StrV(KeyK)}

FnEnvs == {[AQS_EMAIL |-> e, AQS_API_KEY |-> k] :
              e \in {Undef, StrV(<<>>), StrV(EmailE), StrV(EmailF)},
              k \in {Undef, StrV(<<>>), StrV(KeyE)}}

\* values of a parameter of the map handed to buildUrl
FnParamValues == {Undef, Null, StrV(<<>>), StrV(<<"0">>), StrV(<<"0", "6">>)}

FnInputs ==
    {[fn |-> "validateDateFormat", a |-> d, b |-> Undef, c |-> Undef] : d \in FnDateInputs}
    \cup {[fn |-> "validateDateRange", a |-> StrV(b), b |-> StrV(e), c |-> Undef] :
             b \in FnRangeTokens, e \in FnRangeTokens}
    \cup {[fn |-> "resolveCredentials", a |-> e, b |-> k, c |-> Undef] :
             e \in FnCredInputs, k \in FnKeyInputs}
    \cup {[fn |-> "buildUrl", a |-> x, b |-> y, c |-> z] :
             x \in FnParamValues, y \in FnParamValues, z \in FnParamValues}

\* the map { email: a, state: b, county: c } and the endpoint of the direct call
FnParams == <<Param("email", fnIn.a), Param("state", fnIn.b), Param("county", fnIn.c)>>
FnEndpoint == "list/sitesByCounty"

InitFn ==
    /\ now = StartTime
    /\ lastRequestTime = 0
    /\ calls = [c \in Calls |-> IdleCall]
    /\ starts = <<>>
    /\ fnIn \in FnInputs
    /\ env \in IF fnIn.fn = "resolveCredentials" THEN FnEnvs ELSE {EnvUnset}
    /\ fnOut = NotCalled

Record(res) == [n |-> fnOut.n + 1, env |-> env, prevEnv |-> fnOut.env, res |-> res]

CallValidateDateFormat ==
    /\ fnIn.fn = "validateDateFormat"
    /\ fnOut.n < MaxFnCalls
    /\ fnOut' = Record(validateDateFormat(fnIn.a, "bdate"))
    /\ UNCHANGED <<now, lastRequestTime, env, calls, starts, fnIn>>

CallValidateDateRange ==
    /\ fnIn.fn = "validateDateRange"
    /\ fnOut.n < MaxFnCalls
    /\ fnOut' = Record(validateDateRange(fnIn.a.s, fnIn.b.s))
    /\ UNCHANGED <<now, lastRequestTime, env, calls, starts, fnIn>>

CallResolveCredentials ==
    /\ fnIn.fn = "resolveCredentials"
    /\ fnOut.n < MaxFnCalls
    /\ fnOut' = Record(resolveCredentials(fnIn.a, fnIn.b))
    /\ UNCHANGED <<now, lastRequestTime, env, calls, starts, fnIn>>

CallBuildUrl ==
    /\ fnIn.fn = "buildUrl"
    /\ fnOut.n < MaxFnCalls
    /\ fnOut' = Record(Returned(buildUrl(FnEndpoint, FnParams)))
    /\ UNCHANGED <<now, lastRequestTime, env, calls, starts, fnIn>>

\* the caller assigns process.env.AQS_EMAIL / AQS_API_KEY
SetEnv(e) ==
    /\ fnIn.fn = "resolveCredentials"
    /\ fnOut.n = 1
    /\ env # e
    /\ env' = e
    /\ UNCHANGED <<now, lastRequestTime, calls, starts, fnIn, fnOut>>

NextFn ==
    \/ CallValidateDateFormat
    \/ CallValidateDateRange
    \/ CallResolveCredentials
    \/ CallBuildUrl
    \/ \E e \in FnEnvs : SetEnv(e)

SpecFn == InitFn /\ [][NextFn]_vars

----------------------------------------------------------------------------
(* Vocabulary of the properties, stated without the operators above *)

HasFragment(text, f) == \E i \in 1..Len(text) : text[i] = f

\* every two consecutive GETs start at least RATE_LIMIT_MS apart
SpacedStarts == \A i \in 1..(Len(starts) - 1) : starts[i + 1] - starts[i] >= 5000

IsEightDigits(v) == v.t = "string" /\ Len(v.s) = 8 /\ \A i \in 1..Len(v.s) : v.s[i] \in Digits

YearNum(s) == 1000 * DigitVal(s[1]) + 100 * DigitVal(s[2]) + 10 * DigitVal(s[3]) + DigitVal(s[4])
MonthNum(s) == 10 * DigitVal(s[5]) + DigitVal(s[6])
DayNum(s) == 10 * DigitVal(s[7]) + DigitVal(s[8])

InRange(s) == /\ 1 <= MonthNum(s) /\ MonthNum(s) <= 12
              /\ 1 <= DayNum(s) /\ DayNum(s) <= 31
              /\ 1900 <= YearNum(s) /\ YearNum(s) <= 2100

FormatValid(v) == IsEightDigits(v) /\ InRange(v.s)

FirstFour(s) == [i \in 1..Min(4, Len(s)) |-> s[i]]

Supplied(provided, fromEnv) == Truthy(provided) \/ Truthy(fromEnv)

EmailMessage == "Email is required. Provide it as a parameter or set AQS_EMAIL environment variable."
KeyMessage == "API key is required. Provide it as a parameter or set AQS_API_KEY environment variable."

----------------------------------------------------------------------------
(* C1: when calls are made one at a time, every two consecutive HTTP       *)
(* request starts are at least 5000 ms apart, and only a call made before  *)
(* any request was issued passes without regard to the marker (while no    *)
(* request has been started, no call is ever suspended).                   *)
C1_SequentialSpacing ==
    /\ SpacedStarts
    /\ starts = <<>> => \A c \in Calls : calls[c].pc # "sleeping"

\* a second or later request that was issued after a throttle wait
C1_Witness ==
    /\ Len(starts) >= 2
    /\ calls[1].pc = "fetching"
    /\ calls[1].wakeAt > 0
    /\ starts[Len(starts)] - starts[Len(starts) - 1] >= 5000

(* C2: under concurrent invocation no two suspended calls have observed    *)
(* the same marker (wakeAt is the observed marker plus 5000) and no two    *)
(* HTTP requests start less than 5000 ms apart.                            *)
C2_CriticalSection ==
    /\ \A c, d \in Calls :
          c # d /\ calls[c].pc = "sleeping" /\ calls[d].pc = "sleeping"
             => calls[c].wakeAt # calls[d].wakeAt
    /\ \A i \in 1..(Len(starts) - 1) : starts[i + 1] - starts[i] >= RATE_LIMIT_MS

(* C3: a date-taking tool issues an HTTP request only if bdate and edate   *)
(* are both format-valid and of the same year; a call whose credentials    *)
(* resolve and whose format-valid dates are of different years ends with   *)
(* the cross-year error and without any request.                           *)
C3_DateFamilies == {"monitor", "sample", "daily", "quarterly", "annual"}

C3_ReachedTransport(call) == call.pc \in {"sleeping", "fetching"} \/ call.sent > 0

C3_CrossYear(call) ==
    /\ FormatValid(call.args.bdate) /\ FormatValid(call.args.edate)
    /\ FirstFour(call.args.bdate.s) # FirstFour(call.args.edate.s)
    /\ Supplied(call.args.email, env.AQS_EMAIL)
    /\ Supplied(call.args.key, env.AQS_API_KEY)

C3_NoRequestUnlessSameYear ==
    \A c \in Calls :
       LET call == calls[c]
       IN call.pc # "idle" /\ call.name \in ToolNames
          /\ ToolOf(call.name).family \in C3_DateFamilies
          => /\ C3_ReachedTransport(call)
                => /\ FormatValid(call.args.bdate)
                   /\ FormatValid(call.args.edate)
                   /\ FirstFour(call.args.bdate.s) = FirstFour(call.args.edate.s)
             /\ C3_CrossYear(call)
                => /\ call.pc = "done"
                   /\ call.sent = 0
                   /\ HasFragment(call.result.text, "Begin date (")
                   /\ HasFragment(call.result.text, ") must be in the same calendar year. Got years ")

\* the call 20230601 / 20240601 of a quarterly tool has failed
C3_Witness ==
    /\ calls[1].pc = "done"
    /\ calls[1].name = "aqs_quarterly_summary_by_site"
    /\ calls[1].args.bdate = D20230601 /\ calls[1].args.edate = D20240601
    /\ C3_CrossYear(calls[1])
    /\ calls[1].sent = 0
    /\ starts = <<>>

(* C4: with calls made one at a time, at most 10 HTTP requests start in    *)
(* any 60-second window: the 11th request after any request starts at      *)
(* least 60000 ms after it.                                                *)
C4_TenPerMinute ==
    \A i \in 1..Len(starts) : \A j \in 1..Len(starts) :
       j = i + 10 => starts[j] - starts[i] >= 60000

(* C5: every error raised in the handling of a call to a known tool ends   *)
(* as a response that is not marked isError; the only response marked      *)
(* isError is the one for an unknown tool name.                            *)
C5_OnlyUnknownIsError ==
    \A c \in Calls :
       calls[c].pc = "done" => (calls[c].result.isError <=> calls[c].name \notin ToolNames)

(* C6: resolveCredentials returns, for each field independently, the       *)
(* caller-supplied value when one is given and otherwise the value of the  *)
(* environment variable as it is at the time of that call.                 *)
C6_ResolvedFromCallTimeEnv ==
    fnIn.fn = "resolveCredentials" /\ fnOut.n > 0 /\ fnOut.res.ok
       => /\ fnOut.res.value.email =
                IF Truthy(fnIn.a) THEN fnIn.a ELSE fnOut.env.AQS_EMAIL
          /\ fnOut.res.value.key =
                IF Truthy(fnIn.b) THEN fnIn.b ELSE fnOut.env.AQS_API_KEY

\* a second call, after the environment changed, returned the new value
C6_Witness ==
    /\ fnIn.fn = "resolveCredentials" /\ fnOut.n = 2 /\ fnOut.res.ok
    /\ ~Truthy(fnIn.a) /\ Truthy(fnIn.b)
    /\ Truthy(fnOut.prevEnv.AQS_EMAIL)
    /\ fnOut.prevEnv.AQS_EMAIL # fnOut.env.AQS_EMAIL
    /\ fnOut.res.value.email = fnOut.env.AQS_EMAIL
    /\ fnOut.res.value.key = fnIn.b

(* C7: resolveCredentials fails exactly when, for at least one field,      *)
(* neither the caller nor the environment supplies a value; the error      *)
(* names the missing field, and names the email when both are missing.     *)
C7_MissingCredential ==
    fnIn.fn = "resolveCredentials" /\ fnOut.n > 0
       => LET noEmail == ~Supplied(fnIn.a, fnOut.env.AQS_EMAIL)
              noKey == ~Supplied(fnIn.b, fnOut.env.AQS_API_KEY)
          IN /\ ~fnOut.res.ok <=> (noEmail \/ noKey)
             /\ noEmail => fnOut.res.message = <<EmailMessage>>
             /\ ~noEmail /\ noKey => fnOut.res.message = <<KeyMessage>>

\* neither source has an email nor a key, and the call has failed
C7_Witness ==
    /\ fnIn.fn = "resolveCredentials" /\ fnOut.n > 0
    /\ ~Supplied(fnIn.a, fnOut.env.AQS_EMAIL)
    /\ ~Supplied(fnIn.b, fnOut.env.AQS_API_KEY)
    /\ fnOut.res.message = <<EmailMessage>>

(* C8: validateDateFormat fails with the invalid-format error for every    *)
(* token that is not exactly 8 ASCII digits (an absent value included),    *)
(* never with a month, day or year error.                                  *)
C8_NotEightDigits ==
    fnIn.fn = "validateDateFormat" /\ fnOut.n > 0 /\ ~IsEightDigits(fnIn.a)
       => /\ ~fnOut.res.ok
          /\ fnOut.res.site = "InvalidDateFormat"
          /\ HasFragment(fnOut.res.message, " must be in YYYYMMDD format. Got: ")

\* a token of nine digits has been rejected
C8_Witness ==
    /\ fnIn.fn = "validateDateFormat" /\ fnOut.n > 0
    /\ fnIn.a.t = "string" /\ Len(fnIn.a.s) = 9
    /\ \A i \in 1..9 : fnIn.a.s[i] \in Digits
    /\ fnOut.res.site = "InvalidDateFormat"

(* C9: for an 8-digit token validateDateFormat succeeds iff the month is   *)
(* in 1..12, the day in 1..31 and the year in 1900..2100, and otherwise    *)
(* fails with an invalid-value error; no month length is checked.          *)
C9_ValueRanges ==
    fnIn.fn = "validateDateFormat" /\ fnOut.n > 0 /\ IsEightDigits(fnIn.a)
       => /\ fnOut.res.ok <=> InRange(fnIn.a.s)
          /\ ~fnOut.res.ok => fnOut.res.site \in {"InvalidMonth", "InvalidDay", "InvalidYear"}

\* 20240231 has been accepted
C9_Witness ==
    /\ fnIn.fn = "validateDateFormat" /\ fnOut.n > 0
    /\ fnIn.a = StrV(<<"2", "0", "2", "4", "0", "2", "3", "1">>)
    /\ fnOut.res.ok

(* C10: validateDateRange fails, with the cross-year error, iff the first  *)
(* four characters of bdate and edate differ; the order of the two dates   *)
(* within the year is not checked.                                         *)
C10_SameYearOnly ==
    fnIn.fn = "validateDateRange" /\ fnOut.n > 0
       => /\ fnOut.res.ok <=> FirstFour(fnIn.a.s) = FirstFour(fnIn.b.s)
          /\ ~fnOut.res.ok => fnOut.res.site = "CrossYearRange"

\* 20241231 / 20240101 has passed
C10_Witness ==
    /\ fnIn.fn = "validateDateRange" /\ fnOut.n > 0
    /\ fnIn.a = D20241231 /\ fnIn.b = D20240101
    /\ fnOut.res.ok

----------------------------------------------------------------------------
(* Vocabulary of the properties about the transport *)

\* the activation has issued its GET and fetch has settled
Settled(call) == call.pc = "done" /\ call.sent > 0

HttpSuccess(resp) == ~resp.fault /\ 200 <= resp.status /\ resp.status <= 299

FirstHeaderFailed(resp) ==
    resp.hasHeader /\ Len(resp.Header) > 0 /\ resp.Header[1].status = "Failed"

\* the decimal digits of a three-digit status code
StatusDigits(n) == <<DigitChar(n \div 100), DigitChar((n \div 10) % 10), DigitChar(n % 10)>>

Contains(text, part) ==
    \E i \in 0..(Len(text) - Len(part)) : SubSeq(text, i + 1, i + Len(part)) = part

QueryValues(query, k) == {query[j].v : j \in {i \in 1..Len(query) : query[i].k = k}}

QueryCount(query, k) == Cardinality({i \in 1..Len(query) : query[i].k = k})

EntersTransport(c) == calls[c].pc # "fetching" /\ calls'[c].pc = "fetching"

Begins(c) == calls[c].pc = "idle" /\ calls'[c].pc # "idle"

(* C11: a 2xx response whose body parses, whose Header array is non-empty  *)
(* and whose first header has status 'Failed' makes aqs() fail, with an    *)
(* error whose message carries every field of that header; the 2xx status  *)
(* alone does not make the call succeed.                                   *)
C11_FailedHeaderFails ==
    \A c \in Calls :
       LET call == calls[c]
       IN Settled(call) /\ HttpSuccess(call.response) /\ call.response.parses
          /\ FirstHeaderFailed(call.response)
          => /\ ~call.aqsOut.ok
             /\ HasFragment(call.aqsOut.message, "AQS API Error: ")
             /\ \A f \in {"status", "request_time", "url"} :
                   HasFragment(call.aqsOut.message, call.response.Header[1][f])

\* a request answered 200 with a first header 'Failed' has failed
C11_Witness ==
    /\ Settled(calls[1])
    /\ calls[1].response.status = 200
    /\ FirstHeaderFailed(calls[1].response)
    /\ ~calls[1].aqsOut.ok
    /\ HasFragment(calls[1].aqsOut.message, "Failed")

(* C12: a response whose status is outside 200..299 makes aqs() fail with  *)
(* an error carrying the status code and the reason phrase; the body is    *)
(* not parsed (an unparsable body changes nothing to the error) and none   *)
(* of its records is returned.                                             *)
C12_HttpErrorFails ==
    \A c \in Calls :
       LET call == calls[c]
       IN Settled(call) /\ ~call.response.fault /\ ~HttpSuccess(call.response)
          => /\ ~call.aqsOut.ok
             /\ Contains(call.aqsOut.message,
                         <<"HTTP ">> \o StatusDigits(call.response.status)
                         \o <<": ", call.response.statusText>>)
             /\ ~HasFragment(call.aqsOut.message, "Unexpected token < in JSON at position 0")
             /\ call.aqsOut.value = <<>>
             /\ \A i \in 1..Len(call.response.Data) :
                   ~HasFragment(call.result.text, call.response.Data[i])

\* a 404 whose body is not JSON has failed with the HTTP error
C12_Witness ==
    /\ Settled(calls[1])
    /\ calls[1].response.status = 404
    /\ ~calls[1].response.parses
    /\ Contains(calls[1].aqsOut.message, <<"HTTP ", "4", "0", "4", ": ", "Not Found">>)

(* C13: every activation that reaches the transport issues one GET, at the *)
(* moment it gets there, whatever was requested before (no cache); once    *)
(* the GET is issued the activation only ends, with no further GET (no     *)
(* retry), whatever the outcome; no GET is issued otherwise.               *)
C13_OneGetPerInvocation ==
    /\ [](\A c \in Calls :
             /\ calls[c].pc = "fetching" => calls[c].sent = 1
             /\ calls[c].pc = "done" /\ calls[c].aqsOut # NotSettled => calls[c].sent = 1)
    /\ [][/\ \A c \in Calls :
                EntersTransport(c) => /\ starts' = Append(starts, now)
                                      /\ calls'[c].sent = 1
          /\ \A c \in Calls :
                calls[c].pc = "fetching"
                   => calls'[c].pc \in {"fetching", "done"} /\ starts' = starts
          /\ starts' # starts => \E c \in Calls : EntersTransport(c)]_vars

\* the third of three identical calls has issued its own GET, which failed
C13_Witness ==
    /\ Len(starts) = 3
    /\ Settled(calls[1])
    /\ calls[1].sent = 1
    /\ calls[1].response.fault

(* C14: when the status is in 200..299, the body parses and the first      *)
(* header (if any) is not 'Failed', aqs() returns the envelope as parsed:  *)
(* the same Header (or none) and the same Data records in the same order.  *)
C14_EnvelopeUnchanged ==
    \A c \in Calls :
       LET call == calls[c]
       IN Settled(call) /\ HttpSuccess(call.response) /\ call.response.parses
          /\ ~FirstHeaderFailed(call.response)
          => /\ call.aqsOut.ok
             /\ call.aqsOut.value.hasHeader = call.response.hasHeader
             /\ call.aqsOut.value.Header = call.response.Header
             /\ call.aqsOut.value.Data = call.response.Data

\* an envelope of two headers and a record has been returned
C14_Witness ==
    /\ Settled(calls[1])
    /\ calls[1].aqsOut.ok
    /\ Len(calls[1].response.Header) = 2
    /\ calls[1].aqsOut.value.Header = calls[1].response.Header
    /\ calls[1].aqsOut.value.Data = <<"row1">>

C16_UnknownTool ==
    /\ [](\A c \in Calls :
             calls[c].pc # "idle" /\ calls[c].name \notin ToolNames
                => /\ calls[c].pc = "done"
                   /\ calls[c].result.isError
                   /\ calls[c].result.text = <<"Unknown tool: ", calls[c].name>>
                   /\ calls[c].params = <<>>
                   /\ calls[c].aqsOut = NotSettled
                   /\ calls[c].sent = 0)
    /\ [][\A c \in Calls :
             Begins(c) /\ calls'[c].name \notin ToolNames
                => lastRequestTime' = lastRequestTime /\ starts' = starts]_vars

\* an unknown name was called after a request had set the marker
C16_Witness ==
    /\ calls[1].pc = "done"
    /\ calls[1].name = UnknownName
    /\ calls[1].result.isError
    /\ lastRequestTime > 0
    /\ Len(starts) = 1

(* C17: the query built by buildUrl holds, once each and with its value,   *)
(* exactly the parameters of the map whose value is neither undefined,     *)
(* null nor the empty string; the others do not appear at all.             *)
C17_Sent(v) == v.t \notin {"undefined", "null"} /\ v.s # <<>>

C17_OnlyNonEmptyParams ==
    fnIn.fn = "buildUrl" /\ fnOut.n > 0
       => LET query == fnOut.res.value.query
              given == [email |-> fnIn.a, state |-> fnIn.b, county |-> fnIn.c]
          IN /\ fnOut.res.value.endpoint = "list/sitesByCounty"
             /\ \A k \in DOMAIN given :
                   IF C17_Sent(given[k])
                   THEN QueryCount(query, k) = 1 /\ QueryValues(query, k) = {given[k].s}
                   ELSE QueryCount(query, k) = 0
             /\ \A j \in 1..Len(query) : query[j].k \in DOMAIN given /\ query[j].v # <<>>

\* of a null, an empty and a "0" value only the last one was sent
C17_Witness ==
    /\ fnIn.fn = "buildUrl" /\ fnOut.n > 0
    /\ fnIn.a = Null /\ fnIn.b = StrV(<<>>) /\ fnIn.c = StrV(<<"0">>)
    /\ fnOut.res.value.query = <<[k |-> "county", v |-> <<"0">>]>>

(* C18: the server registers 31 tools, their names are pairwise distinct,  *)
(* the name-to-tool map has 31 entries and maps every listed name to the   *)
(* tool listed under it; a call of a listed name is never answered as an   *)
(* unknown tool.                                                           *)
C18_ThirtyOneDistinctTools ==
    /\ Len(allTools) = 31
    /\ \A i, j \in 1..Len(allTools) : allTools[i].name = allTools[j].name => i = j
    /\ Cardinality(DOMAIN toolMap) = 31
    /\ \A i \in 1..Len(allTools) : toolMap[allTools[i].name] = allTools[i]
    /\ \A c \in Calls :
          calls[c].pc # "idle" /\ (\E i \in 1..Len(allTools) : allTools[i].name = calls[c].name)
             => ~HasFragment(calls[c].result.text, "Unknown tool: ")

\* the last tool of the listing has been dispatched to its handler
C18_Witness ==
    /\ calls[1].name = "aqs_annual_summary_by_cbsa"
    /\ calls[1].pc = "fetching"
    /\ calls[1].url.endpoint = "annualData/byCBSA"

(* C19: the marker is the start time of the latest GET: it is set to the   *)
(* current time at the moment a call issues its GET, after a wait or not,  *)
(* and the arrival of a response leaves it alone; a call made 5000 ms or   *)
(* more after the latest request start issues its GET without waiting,     *)
(* whether or not that request has been answered.                          *)
C19_MarkerAtRequestStart ==
    /\ [](lastRequestTime = IF starts = <<>> THEN 0 ELSE starts[Len(starts)])
    /\ [][/\ \A c \in Calls :
                EntersTransport(c) => lastRequestTime' = now /\ starts' = Append(starts, now)
          /\ \A c \in Calls :
                calls[c].pc = "fetching" /\ calls'[c].pc = "done"
                   => lastRequestTime' = lastRequestTime
          /\ \A c \in Calls :
                Begins(c) /\ lastRequestTime > 0 /\ now - lastRequestTime >= 5000
                   => calls'[c].pc = "fetching" /\ calls'[c].wakeAt = 0]_vars

\* a second GET went out unthrottled while the first was still unanswered
C19_Witness ==
    /\ calls[1].pc = "fetching" /\ calls[2].pc = "fetching"
    /\ calls[1].wakeAt = 0 /\ calls[2].wakeAt = 0
    /\ Len(starts) = 2
    /\ starts[2] - starts[1] >= 5000

(* C20: a call entering enforceRateLimit is suspended iff the marker is    *)
(* not 0 and less than 5000 ms have elapsed since the marker, and its      *)
(* timer is then set for 5000 - elapsed ms from now; otherwise it issues   *)
(* its GET at once.  A suspended call issues its GET as its next step,     *)
(* not before its timer is due, whatever the marker has become.            *)
C20_SuspendedIffTooSoon ==
    [][/\ \A c \in Calls :
             Begins(c)
                => /\ calls'[c].pc = "sleeping"
                         <=> (lastRequestTime # 0 /\ now - lastRequestTime < 5000)
                   /\ calls'[c].pc = "sleeping"
                         => calls'[c].wakeAt = now + (5000 - (now - lastRequestTime))
                   /\ calls'[c].pc # "sleeping"
                         => calls'[c].pc = "fetching" /\ calls'[c].wakeAt = 0
       /\ \A c \in Calls :
             calls[c].pc = "sleeping" /\ calls'[c] # calls[c]
                => /\ calls'[c].pc = "fetching"
                   /\ now >= calls[c].wakeAt
                   /\ lastRequestTime' = now]_vars

\* a suspended call issued its GET although the marker had just been set
C20_Witness ==
    /\ calls[1].pc = "fetching" /\ calls[2].pc = "fetching"
    /\ calls[1].wakeAt > 0 /\ calls[1].wakeAt = calls[2].wakeAt
    /\ Len(starts) >= 3
    /\ starts[Len(starts)] = starts[Len(starts) - 1]

----------------------------------------------------------------------------
(* Vocabulary of the properties about the order of the steps *)

Prefix == "AQS API request failed: "

CredMissing(call) ==
    ~Supplied(call.args.email, env.AQS_EMAIL) \/ ~Supplied(call.args.key, env.AQS_API_KEY)

TakesDates(call) ==
    call.name \in ToolNames /\ ToolOf(call.name).family \in C3_DateFamilies

DifferentYears(call) == FirstFour(call.args.bdate.s) # FirstFour(call.args.edate.s)

\* the error markers of the steps that precede the transport
Reports(call, marker) == HasFragment(call.result.text, marker)

CredMarkers == {EmailMessage, KeyMessage}
DateMarkers == {"bdate", "edate", "Begin date ("}

Active(c) == calls[c].pc \in {"sleeping", "fetching"}

(* C21: with one handler running at a time, a request attempt that failed  *)
(* (non-2xx, 'Failed' header or network fault) has left the marker at its  *)
(* start time or later, and a call made after it is throttled against it:  *)
(* it sleeps until 5000 ms after the failed start at least, and its own    *)
(* request starts no sooner.                                               *)
C21_FailedAttemptCounts ==
    \A c, d \in Calls :
       c # d /\ Settled(calls[c]) /\ ~calls[c].aqsOut.ok
          => /\ calls[c].startedAt > 0
             /\ lastRequestTime >= calls[c].startedAt
             /\ calls[d].pc = "sleeping"
                   => calls[d].wakeAt >= calls[c].startedAt + 5000
             /\ calls[d].pc = "fetching"
                   => calls[d].startedAt >= calls[c].startedAt + 5000

\* the call after an attempt answered 500 waited, then issued its request
C21_Witness ==
    /\ Settled(calls[1])
    /\ calls[1].response.status = 500
    /\ calls[2].pc = "fetching"
    /\ calls[2].wakeAt = calls[1].startedAt + 5000
    /\ calls[2].startedAt >= calls[2].wakeAt

(* C22: in a date-taking tool the first failing step, in the order         *)
(* credentials, bdate format, edate format, same year, decides the error   *)
(* reported, and nothing of a later step is reported or done; only a call  *)
(* that passes the four checks reaches the throttle gate, and it sleeps    *)
(* there before any GET is issued.                                         *)
C22_FixedOrder ==
    \A c \in Calls :
       LET call == calls[c]
           noCred == CredMissing(call)
           badB == ~FormatValid(call.args.bdate)
           badE == ~FormatValid(call.args.edate)
           stopped == call.pc = "done" /\ call.sent = 0 /\ call.startedAt = 0
       IN call.pc # "idle" /\ TakesDates(call)
          => /\ noCred
                   => /\ stopped
                      /\ \E m \in CredMarkers : Reports(call, m)
                      /\ \A m \in DateMarkers : ~Reports(call, m)
             /\ ~noCred /\ badB
                   => /\ stopped
                      /\ Reports(call, "bdate")
                      /\ \A m \in CredMarkers \cup {"edate", "Begin date ("} : ~Reports(call, m)
             /\ ~noCred /\ ~badB /\ badE
                   => /\ stopped
                      /\ Reports(call, "edate")
                      /\ \A m \in CredMarkers \cup {"bdate", "Begin date ("} : ~Reports(call, m)
             /\ ~noCred /\ ~badB /\ ~badE /\ DifferentYears(call)
                   => /\ stopped
                      /\ Reports(call, "Begin date (")
                      /\ \A m \in CredMarkers : ~Reports(call, m)
             /\ ~noCred /\ ~badB /\ ~badE /\ ~DifferentYears(call)
                   => /\ C3_ReachedTransport(call)
                      /\ call.pc = "sleeping" => call.sent = 0 /\ call.url = NoUrl
                      /\ call.pc # "sleeping" => call.sent = 1

\* an invalid bdate and an invalid edate: bdate is the one reported
C22_Witness ==
    /\ calls[1].pc = "done"
    /\ calls[1].name = "aqs_daily_summary_by_site"
    /\ ~CredMissing(calls[1])
    /\ calls[1].args.bdate = D20241301 /\ calls[1].args.edate = D2024060
    /\ Reports(calls[1], "bdate") /\ ~Reports(calls[1], "edate")

(* C23: every failure of aqs() after the GET - network fault, non-2xx      *)
(* status, 'Failed' header - is an Error whose message is the prefix       *)
(* 'AQS API request failed: ' followed by the message of the original      *)
(* error; the prefix occurs once.                                          *)
C23_WrappedOnce ==
    \A c \in Calls :
       LET call == calls[c]
           msg == call.aqsOut.message
           resp == call.response
       IN Settled(call) /\ ~call.aqsOut.ok
          => /\ Len(msg) >= 2
             /\ msg[1] = Prefix
             /\ Cardinality({i \in 1..Len(msg) : msg[i] = Prefix}) = 1
             /\ resp.fault => Tail(msg) = <<"fetch failed">>
             /\ ~resp.fault /\ ~HttpSuccess(resp)
                   => Tail(msg) = <<"HTTP ">> \o StatusDigits(resp.status)
                                  \o <<": ", resp.statusText>>
             /\ HttpSuccess(resp) /\ resp.parses
                   => /\ FirstHeaderFailed(resp)
                      /\ msg[2] = "AQS API Error: "

\* a network fault surfaced as the wrapped error
C23_Witness ==
    /\ Settled(calls[1])
    /\ calls[1].response.fault
    /\ calls[1].aqsOut.message = <<Prefix, "fetch failed">>

(* C24: with time passing, due timers firing and issued fetches settling,  *)
(* every call that entered aqs() produces its response, also while calls   *)
(* keep arriving; a call is put to sleep for at most 5000 ms, leaves the   *)
(* sleep only to issue its GET, and a response is produced once (after it  *)
(* the activation is only collected).                                      *)
C24_EveryCallResponds ==
    /\ \A c \in Calls : Active(c) ~> (calls[c].pc = "done")
    /\ [][\A c \in Calls :
             /\ Begins(c) /\ calls'[c].pc = "sleeping"
                   => calls'[c].wakeAt > now /\ calls'[c].wakeAt <= now + 5000
             /\ calls[c].pc = "sleeping" /\ calls'[c] # calls[c]
                   => calls'[c].pc = "fetching"
             /\ calls[c].pc = "done" /\ calls'[c] # calls[c]
                   => calls'[c].pc = "idle"]_vars

\* a call that had to wait has its response, while another call is waiting
C24_Witness ==
    /\ calls[1].pc = "done"
    /\ calls[1].wakeAt > 0
    /\ calls[1].sent = 1
    /\ calls[2].pc = "sleeping"

(* C25: a call of a tool that resolves credentials which fails in the      *)
(* credential resolution or in the date validation ends in the step that   *)
(* began it, without entering aqs(): no GET, and the marker and the log    *)
(* of request starts are what they were before the call.                   *)
C25_Rejected(call) ==
    /\ call.name \in ToolNames /\ call.name # "aqs_signup"
    /\ \/ CredMissing(call)
       \/ /\ TakesDates(call)
          /\ \/ ~FormatValid(call.args.bdate)
             \/ ~FormatValid(call.args.edate)
             \/ DifferentYears(call)

C25_FailedValidationNoEffect ==
    /\ [](\A c \in Calls :
             calls[c].pc # "idle" /\ C25_Rejected(calls[c])
                => /\ calls[c].pc = "done"
                   /\ calls[c].sent = 0
                   /\ calls[c].startedAt = 0
                   /\ calls[c].aqsOut = NotSettled)
    /\ [][\A c \in Calls :
             Begins(c) /\ C25_Rejected(calls'[c])
                => lastRequestTime' = lastRequestTime /\ starts' = starts]_vars

\* a cross-year call was rejected after a request had set the marker
C25_Witness ==
    /\ calls[1].pc = "done"
    /\ calls[1].name = "aqs_annual_summary_by_state"
    /\ C3_CrossYear(calls[1])
    /\ calls[1].sent = 0
    /\ Len(starts) = 1
    /\ lastRequestTime = starts[1] /\ lastRequestTime < now

(* C26: in the executions of the concurrent host in which at most one call *)
(* is suspended in the throttle wait at any time, every two consecutive    *)
(* request starts are at least 5000 ms apart.                              *)
C26_SpacedWithOneSleeper ==
    /\ Cardinality({c \in Calls : calls[c].pc = "sleeping"}) <= 1
    /\ \A i \in 1..Len(starts) : \A j \in 1..Len(starts) :
          j = i + 1 => starts[j] >= starts[i] + 5000

(* C27: the call that finds the marker at 0 issues its GET and sets the    *)
(* marker to a value other than 0 in the step that began it; the marker    *)
(* never returns to 0, and while it is 0 no call is in aqs() or has been.  *)
(* So at most one of the activations that did not wait started within      *)
(* 5000 ms of the first request: the first one.                            *)
C27_OneExemption ==
    /\ [](lastRequestTime = 0
             => /\ starts = <<>>
                /\ \A c \in Calls : ~Active(c) /\ calls[c].sent = 0)
    /\ [](Cardinality({c \in Calls :
                          /\ calls[c].sent > 0 /\ calls[c].wakeAt = 0
                          /\ calls[c].startedAt < starts[1] + 5000}) <= 1)
    /\ [][\A c \in Calls :
             Begins(c) /\ lastRequestTime = 0
                => /\ calls'[c].pc = "fetching"
                   /\ lastRequestTime' = now
                   /\ lastRequestTime' # 0]_vars
    /\ [][lastRequestTime # 0 => lastRequestTime' # 0]_vars

\* a call arriving while the exempted first request is unanswered must wait
C27_Witness ==
    /\ calls[1].pc = "fetching" /\ calls[1].wakeAt = 0
    /\ Len(starts) = 1 /\ calls[1].startedAt = starts[1]
    /\ calls[2].pc = "sleeping"
    /\ calls[2].wakeAt = starts[1] + 5000

(* C28: a credential given as the empty string counts as not given: the    *)
(* environment value is used, and the field is reported missing when the   *)
(* environment value is absent or empty; a returned email or key is never  *)
(* empty.                                                                  *)
C28_NonEmpty(v) == v.t = "string" /\ Len(v.s) > 0

C28_EmptyIsAbsent ==
    fnIn.fn = "resolveCredentials" /\ fnOut.n > 0
       => /\ fnOut.res.ok
                => C28_NonEmpty(fnOut.res.value.email) /\ C28_NonEmpty(fnOut.res.value.key)
          /\ fnIn.a = StrV(<<>>)
                => IF C28_NonEmpty(fnOut.env.AQS_EMAIL)
                   THEN /\ fnOut.res.message # <<EmailMessage>>
                        /\ fnOut.res.ok => fnOut.res.value.email = fnOut.env.AQS_EMAIL
                   ELSE ~fnOut.res.ok /\ fnOut.res.message = <<EmailMessage>>
          /\ fnIn.b = StrV(<<>>)
                => IF C28_NonEmpty(fnOut.env.AQS_API_KEY)
                   THEN /\ fnOut.res.message # <<KeyMessage>>
                        /\ fnOut.res.ok => fnOut.res.value.key = fnOut.env.AQS_API_KEY
                   ELSE ~fnOut.res.ok /\ fnOut.res.message \in {<<EmailMessage>>, <<KeyMessage>>}

\* both arguments empty, both taken from the environment
C28_Witness ==
    /\ fnIn.fn = "resolveCredentials" /\ fnOut.n > 0
    /\ fnIn.a = StrV(<<>>) /\ fnIn.b = StrV(<<>>)
    /\ fnOut.res.ok
    /\ fnOut.res.value = [email |-> fnOut.env.AQS_EMAIL, key |-> fnOut.env.AQS_API_KEY]

(* C29: a 2xx response whose parsed body has no Header, an empty Header,   *)
(* or a 'Failed' status only in a header after the first, makes aqs()      *)
(* return the envelope: only the first element of Header is tested.        *)
C29_HeaderNotFirstFailed(resp) ==
    \/ ~resp.hasHeader
    \/ Len(resp.Header) = 0
    \/ /\ resp.Header[1].status # "Failed"
       /\ \E i \in 2..Len(resp.Header) : resp.Header[i].status = "Failed"

C29_OnlyFirstHeader ==
    \A c \in Calls :
       LET call == calls[c]
       IN Settled(call) /\ HttpSuccess(call.response) /\ call.response.parses
          /\ C29_HeaderNotFirstFailed(call.response)
          => /\ call.aqsOut.ok
             /\ call.aqsOut.message = <<>>
             /\ call.aqsOut.value.Data = call.response.Data
             /\ ~HasFragment(call.result.text, "AQS API Error: ")

\* a response with 'Failed' in its second header was returned
C29_Witness ==
    /\ Settled(calls[1])
    /\ calls[1].response.hasHeader
    /\ Len(calls[1].response.Header) = 2
    /\ calls[1].response.Header[2].status = "Failed"
    /\ calls[1].aqsOut.ok

(* C30: the clock not going back, the marker never decreases; it is 0      *)
(* exactly while no request has passed the gate, and afterwards it is the  *)
(* time at which the latest request passed the gate, which no activation   *)
(* passed later than.                                                      *)
C30_MarkerMonotone ==
    /\ [][lastRequestTime' >= lastRequestTime]_vars
    /\ [](lastRequestTime = 0 <=> starts = <<>>)
    /\ [](starts # <<>>
             => /\ lastRequestTime = starts[Len(starts)]
                /\ lastRequestTime <= now
                /\ \A i \in 1..Len(starts) : starts[i] <= lastRequestTime)
    /\ [](\A c \in Calls : calls[c].startedAt <= lastRequestTime)

\* a timer that fired late moved the marker to the time it fired
C30_Witness ==
    /\ calls[1].sent = 1 /\ calls[2].pc = "fetching"
    /\ calls[2].wakeAt > 0 /\ calls[2].startedAt > calls[2].wakeAt
    /\ calls[2].startedAt > calls[1].startedAt
    /\ lastRequestTime = calls[2].startedAt

====
